---- MODULE Spec2Model ----
(***************************************************************************)
(* dejavu: a deterministic "seen before" memory (src/dejavu.go).           *)
(*                                                                         *)
(* The deterministic struct is a ring buffer of sha256 digests, the write  *)
(* index into it, a map from digest to the newest slot holding it, and a   *)
(* mutex.  WitnessDigest locks, looks the digest up, drops the map entry   *)
(* of the slot it is about to overwrite, writes the slot, records the map  *)
(* entry, advances the index, unlocks and returns the lookup's answer.     *)
(*                                                                         *)
(* Callers are goroutines.  A call is modelled by its steps: the call      *)
(* itself (Witness hashes, WitnessDigest does not), Lock (line 45), the    *)
(* familiarity check (line 46), the update of buffer, lookup and index     *)
(* (lines 49-57), and Unlock with the return (lines 59-60).  A digest is a *)
(* small natural number; 0 is the all-zero digest that make() puts in      *)
(* every slot of the buffer.                                               *)
(***************************************************************************)
EXTENDS Integers, Sequences, FiniteSets, TLC

\* Largest entrieLimit the constructor is given.
MaxCap == 3
\* Largest number of goroutines sharing one instance.
NumCallers == 2
\* Calls made on an instance that a single goroutine uses.
MaxSeqCalls == 5
\* Calls made on an instance that several goroutines share.
MaxConcCalls == 2
\* Number of distinct byte strings given to Witness.
NumData == 2

VARIABLES
    buffer,     \* d.buffer: the ring buffer, a sequence of digests
    size,       \* d.size
    index,      \* d.index: the slot written next, 0-based
    lookup,     \* d.lookup: digest -> newest slot
    mutex,      \* d.mutex: the goroutine holding it, or Free
    callers,    \* the goroutines that share the instance
    pc,         \* where each goroutine is in its call
    call,       \* the entry point and argument of each goroutine's call
    digest,     \* dataDigest of each goroutine's WitnessDigest
    familiar,   \* the local variable familiar of each goroutine
    log,        \* history: the calls in the order they took the mutex
    since,      \* history: Len(log) when each goroutine began its latest call
    ref         \* history: the instance on which every call is WitnessDigest(Sum256(b))

vars == <<buffer, size, index, lookup, mutex, callers, pc, call, digest,
          familiar, log, since, ref>>

Free == 0
Callers == 1 .. NumCallers
\* MaxCap + 1 digests: enough for capacity + 1 pairwise distinct ones.
Digests == 0 .. MaxCap
ZeroDigest == 0
Data == 1 .. NumData

\* sha256.Sum256 on the byte strings of Data: a fixed injective function whose
\* values are digests other than the all-zero one.
Sum256(b) == MaxCap + 1 - b

---------------------------------------------------------------------------
\* Go maps as functions on the set of keys present.

EmptyMap == [k \in {} |-> 0]

\* _, ok := m[k]
Has(m, k) == k \in DOMAIN m

\* m[k]: the zero value when the key is absent
Get(m, k) == IF k \in DOMAIN m THEN m[k] ELSE 0

\* A store that keeps the entry a key already has.
PutIfAbsent(m, k, v) ==
    [x \in (DOMAIN m) \cup {k} |-> IF x \in DOMAIN m THEN m[x] ELSE v]

\* m[k] = v
Put(m, k, v) == [x \in (DOMAIN m) \cup {k} |-> IF x = k THEN v ELSE m[x]]

\* delete(m, k)
Delete(m, k) == [x \in (DOMAIN m) \ {k} |-> m[x]]

---------------------------------------------------------------------------
\* The instance as a value, and the steps of WitnessDigest on it.

\* A constructor that also indexes the zero digests make() fills the buffer with.
NewDejaVuIndexed(entrieLimit) ==
    [buffer |-> [i \in 1 .. entrieLimit |-> ZeroDigest],
     size   |-> entrieLimit,
     index  |-> 0,
     lookup |-> [k \in {ZeroDigest} |-> 0]]

\* NewDejaVuDeterministic(entrieLimit)
NewDejaVuDeterministic(entrieLimit) ==
    [buffer |-> [i \in 1 .. entrieLimit |-> ZeroDigest],
     size   |-> entrieLimit,
     index  |-> 0,
     lookup |-> EmptyMap]

Self == [buffer |-> buffer, size |-> size, index |-> index, lookup |-> lookup]

\* A check made after the prune of lines 49-52 instead of before it.
CheckAfterPrune(d, f) ==
    IF d.index < Len(d.buffer)
       /\ Len(d.buffer) = d.size
       /\ (IF d.buffer[d.index + 1] \in DOMAIN d.lookup
           THEN d.lookup[d.buffer[d.index + 1]] ELSE 0) = d.index
    THEN f \in (DOMAIN d.lookup) \ {d.buffer[d.index + 1]}
    ELSE f \in DOMAIN d.lookup

\* A check that scans the ring buffer instead of asking the map.
CheckBuffer(d, f) == \E i \in 1 .. Len(d.buffer) : d.buffer[i] = f

\* Line 46: _, familiar := d.lookup[dataDigest]
Check(d, f) == Has(d.lookup, f)

\* Line 50: d.buffer[d.index] is in range
InRange(d) == d.index < Len(d.buffer)

\* A prune that compares the map entry with the slot after the cursor.
PruneGuardOffByOne(d) ==
    /\ Len(d.buffer) = d.size
    /\ Get(d.lookup, d.buffer[d.index + 1]) = d.index + 1

\* A prune that forgets to ask whether a newer slot holds the digest.
PruneGuardAnyOwner(d) ==
    Len(d.buffer) = d.size

\* Lines 49-50: maxed && (d.lookup[d.buffer[d.index]] == d.index)
PruneGuard(d) ==
    /\ Len(d.buffer) = d.size
    /\ Get(d.lookup, d.buffer[d.index + 1]) = d.index

\* An overwrite that leaves the map entry of the overwritten digest behind.
EvictNothing(d) == d

\* Lines 49-52: rm oldest lookup key if no newer entry
Evict(d) ==
    IF PruneGuard(d)
    THEN [d EXCEPT !.lookup = Delete(d.lookup, d.buffer[d.index + 1])]
    ELSE d

\* An insertion that advances the index without wrapping around.
InsertNoWrap(d, f) ==
    [d EXCEPT !.buffer[d.index + 1] = f,
              !.lookup = Put(d.lookup, f, d.index),
              !.index  = d.index + 1]

\* An insertion that appends to the buffer once the index has wrapped.
InsertAppend(d, f) ==
    [d EXCEPT !.buffer = IF Has(d.lookup, d.buffer[d.index + 1])
                         THEN Append(d.buffer, f)
                         ELSE [d.buffer EXCEPT ![d.index + 1] = f],
              !.lookup = Put(d.lookup, f, d.index),
              !.index  = (d.index + 1) % d.size]

\* An insertion that records the map entry after advancing the index.
InsertIndexAfter(d, f) ==
    [d EXCEPT !.buffer[d.index + 1] = f,
              !.lookup = Put(d.lookup, f, (d.index + 1) % d.size),
              !.index  = (d.index + 1) % d.size]

\* An insertion that forgets the map entry.
InsertUnindexed(d, f) ==
    [d EXCEPT !.buffer[d.index + 1] = f,
              !.index  = (d.index + 1) % d.size]

\* An insertion that forgets to advance the index.
InsertInPlace(d, f) ==
    [d EXCEPT !.buffer[d.index + 1] = f,
              !.lookup = Put(d.lookup, f, d.index)]

\* Lines 55-57: add entry and update index/lookup
Insert(d, f) ==
    [d EXCEPT !.buffer[d.index + 1] = f,
              !.lookup = Put(d.lookup, f, d.index),
              !.index  = (d.index + 1) % d.size]

\* Lines 44-61 run without interruption: the new instance and the result.
WitnessDigest(d, f) ==
    [d |-> Insert(Evict(d), f), familiar |-> Check(d, f)]

---------------------------------------------------------------------------

Init ==
    /\ \E entrieLimit \in 0 .. MaxCap :
          /\ buffer = NewDejaVuDeterministic(entrieLimit).buffer
          /\ size   = NewDejaVuDeterministic(entrieLimit).size
          /\ index  = NewDejaVuDeterministic(entrieLimit).index
          /\ lookup = NewDejaVuDeterministic(entrieLimit).lookup
          /\ ref    = NewDejaVuDeterministic(entrieLimit)
    /\ mutex = Free
    /\ \E n \in Callers : callers = 1 .. n
    /\ pc = [p \in Callers |-> "idle"]
    /\ call = [p \in Callers |-> [entry |-> "none", arg |-> 0]]
    /\ digest = [p \in Callers |-> ZeroDigest]
    /\ familiar = [p \in Callers |-> FALSE]
    /\ log = << >>
    /\ since = [p \in Callers |-> 0]

\* The calls begun so far, and how many the model lets begin.
Started == Len(log) + Cardinality({p \in callers : pc[p] = "lock"})
CallBudget == IF Cardinality(callers) = 1 THEN MaxSeqCalls ELSE MaxConcCalls

\* A Witness that hashes only a fixed prefix of its data.
WitnessArgPrefix(b) == Sum256(1)

\* Line 64: the digest Witness passes on
WitnessArg(b) == Sum256(b)

\* Lines 63-65: d.Witness(data) calls d.WitnessDigest(sha256.Sum256(data))
CallWitness(p, b) ==
    /\ p \in callers
    /\ pc[p] = "idle"
    /\ Started < CallBudget
    /\ pc' = [pc EXCEPT ![p] = "lock"]
    /\ call' = [call EXCEPT ![p] = [entry |-> "Witness", arg |-> b]]
    /\ digest' = [digest EXCEPT ![p] = WitnessArg(b)]
    /\ since' = [since EXCEPT ![p] = Len(log)]
    /\ UNCHANGED <<buffer, size, index, lookup, mutex, callers, familiar, log, ref>>

\* Line 44: d.WitnessDigest(dataDigest) called directly
CallWitnessDigest(p, f) ==
    /\ p \in callers
    /\ pc[p] = "idle"
    /\ Started < CallBudget
    /\ pc' = [pc EXCEPT ![p] = "lock"]
    /\ call' = [call EXCEPT ![p] = [entry |-> "WitnessDigest", arg |-> f]]
    /\ digest' = [digest EXCEPT ![p] = f]
    /\ since' = [since EXCEPT ![p] = Len(log)]
    /\ UNCHANGED <<buffer, size, index, lookup, mutex, callers, familiar, log, ref>>

\* The digest of a call when Witness(b) is read as WitnessDigest(Sum256(b)).
RefDigest(c) == IF c.entry = "Witness" THEN Sum256(c.arg) ELSE c.arg

\* A Lock that excludes nobody.
CanLockAlways(p) == TRUE

\* sync.Mutex: Lock proceeds only when no goroutine holds the mutex
CanLock(p) == mutex = Free

\* Line 45: d.mutex.Lock()
Lock(p) ==
    /\ pc[p] = "lock"
    /\ CanLock(p)
    /\ mutex' = p
    /\ pc' = [pc EXCEPT ![p] = "check"]
    /\ log' = Append(log, [caller |-> p, digest |-> digest[p], done |-> FALSE,
                           familiar |-> FALSE,
                           expect |-> IF ref.size > 0
                                      THEN WitnessDigest(ref, RefDigest(call[p])).familiar
                                      ELSE FALSE])
    /\ ref' = IF ref.size > 0 THEN WitnessDigest(ref, RefDigest(call[p])).d ELSE ref
    /\ UNCHANGED <<buffer, size, index, lookup, callers, call, digest, familiar, since>>

\* Line 46
DoCheck(p) ==
    /\ pc[p] = "check"
    /\ familiar' = [familiar EXCEPT ![p] = Check(Self, digest[p])]
    /\ pc' = [pc EXCEPT ![p] = "update"]
    /\ UNCHANGED <<buffer, size, index, lookup, mutex, callers, call, digest, log, since, ref>>

\* Lines 49-57
Update(p) ==
    /\ pc[p] = "update"
    /\ InRange(Self)
    /\ LET n == Insert(Evict(Self), digest[p]) IN
          /\ buffer' = n.buffer
          /\ lookup' = n.lookup
          /\ index'  = n.index
    /\ pc' = [pc EXCEPT ![p] = "unlock"]
    /\ UNCHANGED <<size, mutex, callers, call, digest, familiar, log, since, ref>>

\* Line 50 on a zero-length buffer: d.buffer[d.index] panics (index out of
\* range); the mutex is not released, the call returns nothing.
Panic(p) ==
    /\ pc[p] = "update"
    /\ ~InRange(Self)
    /\ pc' = [pc EXCEPT ![p] = "panicked"]
    /\ UNCHANGED <<buffer, size, index, lookup, mutex, callers, call, digest,
                   familiar, log, since, ref>>

\* The entry of the log that goroutine p's call in progress made.
Ticket(p) ==
    CHOOSE i \in 1 .. Len(log) :
        /\ log[i].caller = p
        /\ \A j \in (i + 1) .. Len(log) : log[j].caller # p

\* An Unlock that leaves the mutex held.
ReleasedNot(p) == p

\* sync.Mutex: Unlock leaves the mutex free
Released(p) == Free

\* Lines 59-60: d.mutex.Unlock(); return familiar
Unlock(p) ==
    /\ pc[p] = "unlock"
    /\ mutex' = Released(p)
    /\ log' = [log EXCEPT ![Ticket(p)].done = TRUE,
                          ![Ticket(p)].familiar = familiar[p]]
    /\ pc' = [pc EXCEPT ![p] = "idle"]
    /\ call' = [call EXCEPT ![p] = [entry |-> "none", arg |-> 0]]
    /\ digest' = [digest EXCEPT ![p] = ZeroDigest]
    /\ familiar' = [familiar EXCEPT ![p] = FALSE]
    /\ UNCHANGED <<buffer, size, index, lookup, callers, since, ref>>

Next ==
    \E p \in Callers :
        \/ \E b \in Data : CallWitness(p, b)
        \/ \E f \in Digests : CallWitnessDigest(p, f)
        \/ Lock(p)
        \/ DoCheck(p)
        \/ Update(p)
        \/ Panic(p)
        \/ Unlock(p)

Spec == Init /\ [][Next]_vars

\* sync.Mutex hands the mutex to a goroutine that keeps waiting for it
\* (starvation mode), and a running goroutine keeps running.
Fairness ==
    \A p \in Callers :
        /\ SF_vars(Lock(p))
        /\ WF_vars(DoCheck(p))
        /\ WF_vars(Update(p))
        /\ WF_vars(Unlock(p))

FairSpec == Spec /\ Fairness

---------------------------------------------------------------------------
\* Reading the history.

Calls == 1 .. Len(log)
Returned == {k \in Calls : log[k].done}
Max(a, b) == IF a > b THEN a ELSE b

\* The calls whose insertions make up the window seen by call k.
WindowOf(k) == Max(1, k - size) .. (k - 1)
InWindow(k, f) == \E j \in WindowOf(k) : log[j].digest = f

\* The first n calls passed pairwise distinct digests.
Distinct(n) ==
    /\ n <= Len(log)
    /\ \A i, j \in 1 .. n : i # j => log[i].digest # log[j].digest

---------------------------------------------------------------------------
\* C1: on an instance of capacity N >= 1 the k-th call returns true if and
\* only if its digest is among the digests of the min(N, k-1) calls just
\* before it: no false positive and no false negative.
C1_ExactWindow ==
    size >= 1 =>
        \A k \in Returned : log[k].familiar <=> InWindow(k, log[k].digest)

\* A call that returns false for a digest witnessed earlier but evicted since,
\* after a call that returned true, on an instance of capacity 2 or more.
C1_Witness ==
    /\ size >= 2
    /\ \E k \in Returned :
          /\ ~log[k].familiar
          /\ \E j \in 1 .. (k - 1) : log[j].digest = log[k].digest
          /\ \E i \in Returned : i < k /\ log[i].familiar

\* C2: no capacity-0 instance exists on which a witness call is started
\* (construction with capacity 0 fails).
C2_NoZeroCapacityCall ==
    ~(size = 0 /\ \E p \in callers : pc[p] # "idle")

\* The first N+1 calls on the instance passed D1..D(N+1), pairwise distinct,
\* and call k passed the same digest as call j.
Same(k, j) == k <= Len(log) /\ log[k].digest = log[j].digest

\* C3 as stated: after D1..D(N+1), witness(D1) returns false and the calls
\* witness(D2), ..., witness(D(N+1)) made after it, in that order, return true.
C3_Original ==
    (size >= 1 /\ Distinct(size + 1) /\ Same(size + 2, 1)) =>
        /\ (size + 2) \in Returned => ~log[size + 2].familiar
        /\ \A m \in 1 .. size :
              ((size + 2 + m) \in Returned
                  /\ \A i \in 1 .. m : Same(size + 2 + i, 1 + i))
              => log[size + 2 + m].familiar

\* C3 as amended: after D1..D(N+1), witness(D1) made next returns false; the
\* calls witness(D2), ..., witness(D(N+1)) made next instead of it, in that
\* order, each return true.
C3_FifoEviction ==
    (size >= 1 /\ Distinct(size + 1)) =>
        /\ ((size + 2) \in Returned /\ Same(size + 2, 1))
              => ~log[size + 2].familiar
        /\ \A m \in 1 .. size :
              ((size + 1 + m) \in Returned
                  /\ \A i \in 1 .. m : Same(size + 1 + i, 1 + i))
              => log[size + 1 + m].familiar

\* Capacity 2: D1, D2, D3 and then D2, D3 have all returned.
C3_Witness ==
    /\ size = 2
    /\ Distinct(3)
    /\ Same(4, 2) /\ Same(5, 3)
    /\ {4, 5} \subseteq Returned
    /\ log[4].familiar /\ log[5].familiar

\* The first N+1 calls passed D1, ..., D(N-1), D1, DN with D1..DN pairwise
\* distinct.
RepeatThenNew ==
    /\ size >= 3
    /\ Len(log) >= size + 1
    /\ Distinct(size - 1)
    /\ log[size].digest = log[1].digest
    /\ \A i \in 1 .. (size - 1) : log[size + 1].digest # log[i].digest

\* C4 as stated: after D1, ..., D(N-1), D1, DN a witness of D2 returns false
\* and a witness of D1 returns true.
C4_Original ==
    (RepeatThenNew /\ (size + 2) \in Returned) =>
        /\ Same(size + 2, 2) => ~log[size + 2].familiar
        /\ Same(size + 2, 1) => log[size + 2].familiar

\* C4 as amended: after D1, ..., D(N-1), D1, DN neither D1 nor D2 has been
\* evicted: a witness of D2 returns true and a witness of D1 returns true.
C4_RepeatKeepsBoth ==
    (RepeatThenNew /\ (size + 2) \in Returned) =>
        /\ Same(size + 2, 2) => log[size + 2].familiar
        /\ Same(size + 2, 1) => log[size + 2].familiar

\* Capacity 3: D1, D2, D1, D3 and then D2, which returned true.
C4_Witness ==
    /\ RepeatThenNew
    /\ (size + 2) \in Returned
    /\ Same(size + 2, 2)
    /\ log[size + 2].familiar

---------------------------------------------------------------------------
\* The goroutines inside the critical section (lines 46-59).
InCS == {p \in callers : pc[p] \in {"check", "update", "unlock"}}
HasCalled(p) == \E i \in Calls : log[i].caller = p

\* Call j took the mutex right after call j-1, which another goroutine made
\* with the same digest, and the goroutine of call j had begun its call before
\* call j-1 took the mutex: the two calls ran concurrently.
RacedPair(j) ==
    /\ j >= 2
    /\ j \in Returned
    /\ log[j - 1].caller # log[j].caller
    /\ log[j - 1].digest = log[j].digest
    /\ since[log[j].caller] < j - 1

\* C5: of two concurrent calls with the same digest, not in the window, the
\* one that takes the mutex first returns false and the other returns true;
\* at most one goroutine is between its check and its insertion.
C5_AtomicCheckInsert ==
    size >= 1 =>
        /\ Cardinality(InCS) <= 1
        /\ \A q \in callers :
              (pc[q] = "idle" /\ HasCalled(q) /\ RacedPair(Ticket(q))
                  /\ ~InWindow(Ticket(q) - 1, log[Ticket(q)].digest))
              => (~log[Ticket(q) - 1].familiar /\ log[Ticket(q)].familiar)

\* Two goroutines raced with a digest nobody had witnessed; both have returned.
C5_Witness ==
    /\ size >= 1
    /\ \E q \in callers :
          /\ pc[q] = "idle" /\ HasCalled(q) /\ RacedPair(Ticket(q))
          /\ ~InWindow(Ticket(q) - 1, log[Ticket(q)].digest)
          /\ log[Ticket(q)].familiar

\* The instance after the first k calls of the history run one after another.
RECURSIVE Replay(_)
Replay(k) ==
    IF k = 0
    THEN NewDejaVuDeterministic(size)
    ELSE WitnessDigest(Replay(k - 1), log[k].digest).d

\* C6: the booleans returned, and the buffer, lookup and index left behind,
\* are those of the same calls run sequentially in the order in which they
\* took the mutex.
C6_Linearizable ==
    size >= 1 =>
        /\ \A k \in Returned :
              log[k].familiar = WitnessDigest(Replay(k - 1), log[k].digest).familiar
        /\ mutex = Free => Self = Replay(Len(log))

\* Two goroutines raced with the same digest; both calls have returned, the
\* second one true, and the mutex is free.
C6_Witness ==
    /\ size >= 1
    /\ mutex = Free
    /\ Len(log) >= 2
    /\ Returned = Calls
    /\ log[1].caller # log[2].caller
    /\ since[log[2].caller] = 0
    /\ log[2].familiar

\* Each goroutine has made at most one call and the digests are pairwise
\* distinct.
OneCallEach ==
    /\ \A i, j \in Calls : i # j => log[i].caller # log[j].caller
    /\ Distinct(Len(log))

\* C7: N goroutines, each witnessing a different one of N pairwise distinct
\* digests on a fresh instance of capacity N, get N times false.
C7_AllUnfamiliar ==
    (size >= 1 /\ Cardinality(callers) = size /\ OneCallEach) =>
        \A k \in Returned : ~log[k].familiar

\* Two goroutines began their calls before either took the mutex, on a fresh
\* instance of capacity 2; both have returned.
C7_Witness ==
    /\ size = 2
    /\ Cardinality(callers) = 2
    /\ OneCallEach
    /\ Len(log) = 2
    /\ Returned = Calls
    /\ \A p \in callers : since[p] = 0
    /\ \E k \in Calls : log[k].digest = ZeroDigest

\* C8: on an instance of capacity >= 1 every call that has begun returns, no
\* call panics, and the mutex is free exactly when no goroutine is inside
\* the critical section.
C8_EveryCallReturns ==
    /\ [](size >= 1 => ((mutex = Free) <=> (InCS = {})))
    /\ [](size >= 1 => \A p \in Callers : pc[p] # "panicked")
    /\ \A p \in Callers : (size >= 1 /\ pc[p] # "idle") ~> (pc[p] = "idle")

\* A goroutine that had to wait for the mutex while another one held it has
\* returned, and the mutex is free again.
C8_Witness ==
    /\ size >= 1
    /\ mutex = Free
    /\ \A p \in callers : pc[p] = "idle"
    /\ \E j \in Returned :
          /\ j >= 2
          /\ log[j - 1].caller # log[j].caller
          /\ since[log[j].caller] < j - 1

\* C9: Witness(b) returns what WitnessDigest(Sum256(b)) returns and leaves the
\* instance as WitnessDigest(Sum256(b)) leaves it.
C9_EntryPointsAgree ==
    size >= 1 =>
        /\ \A k \in Returned : log[k].familiar = log[k].expect
        /\ \A p \in callers :
              pc[p] = "unlock" => familiar[p] = log[Ticket(p)].expect
        /\ mutex = Free => Self = ref

\* A call of Witness is about to return true.
C9_Witness ==
    /\ size >= 1
    /\ \E p \in callers :
          /\ pc[p] = "unlock"
          /\ call[p].entry = "Witness"
          /\ familiar[p]

\* C10: on a fresh instance the first call that passes a digest returns
\* false, the all-zero digest included.
C10_FirstSight ==
    size >= 1 =>
        \A k \in Returned :
            (\A j \in 1 .. (k - 1) : log[j].digest # log[k].digest)
            => ~log[k].familiar

\* The all-zero digest was first passed by the second call, while slots that
\* were never written still held it, and the call returned false.
C10_Witness ==
    /\ size >= 3
    /\ 2 \in Returned
    /\ log[2].digest = ZeroDigest
    /\ log[1].digest # ZeroDigest
    /\ ~log[2].familiar

---------------------------------------------------------------------------
\* C11: after D1..DN, pairwise distinct, on a fresh instance of capacity N,
\* the next call witness(D1) returns true, although D1 is in the slot that
\* this very call overwrites.
C11_WithinWindowRecall ==
    (size >= 1 /\ Distinct(size) /\ Same(size + 1, 1)) =>
        /\ (size + 1) \in Returned => log[size + 1].familiar
        /\ \A p \in callers :
              (pc[p] = "update" /\ Len(log) = size + 1) =>
                  /\ buffer[index + 1] = digest[p]
                  /\ familiar[p]

\* Capacity 3: D1, D2, D3 and then D1, which returned true.
C11_Witness ==
    /\ size = 3
    /\ Distinct(3)
    /\ Same(4, 1)
    /\ 4 \in Returned
    /\ log[4].familiar

\* C12: a call witness(f) made right after a call witness(f) returns true,
\* whatever the first of the two returned.
C12_AlwaysRecorded ==
    size >= 1 =>
        \A k \in Returned :
            (k >= 2 /\ log[k - 1].digest = log[k].digest) => log[k].familiar

\* Three calls in a row with the same digest: the first returned false, the
\* second and the third true.
C12_Witness ==
    /\ size >= 1
    /\ \E k \in Returned :
          /\ k >= 3
          /\ log[k - 2].digest = log[k].digest
          /\ log[k - 1].digest = log[k].digest
          /\ ~log[k - 2].familiar
          /\ log[k - 1].familiar
          /\ log[k].familiar

\* C13: with capacity 1 a call returns true if and only if its digest is that
\* of the call just before it; so A, A, B, A returns false, true, false,
\* false.
C13_CapacityOne ==
    size = 1 =>
        \A k \in Returned :
            log[k].familiar <=> (k >= 2 /\ log[k - 1].digest = log[k].digest)

\* Capacity 1: A, A, B, A have returned false, true, false, false.
C13_Witness ==
    /\ size = 1
    /\ Len(log) >= 4
    /\ {1, 2, 3, 4} \subseteq Returned
    /\ log[2].digest = log[1].digest
    /\ log[3].digest # log[1].digest
    /\ log[4].digest = log[1].digest
    /\ ~log[1].familiar /\ log[2].familiar
    /\ ~log[3].familiar /\ ~log[4].familiar

---------------------------------------------------------------------------
\* The insertions made so far, and the slots they have written.
Inserted == Len(log) - Cardinality({p \in callers : pc[p] \in {"check", "update", "panicked"}})
Min(a, b) == IF a < b THEN a ELSE b
Written == 1 .. Min(Inserted, size)
Held == {buffer[i] : i \in Written}

\* C14: between witness calls, every map entry f -> i points at a slot that
\* holds f.
C14_IndexPointsAtOwner ==
    mutex = Free =>
        \A f \in DOMAIN lookup :
            /\ lookup[f] + 1 \in 1 .. Len(buffer)
            /\ buffer[lookup[f] + 1] = f

\* The buffer has wrapped, a digest has been evicted and two entries remain.
C14_Witness ==
    /\ mutex = Free
    /\ Inserted > size
    /\ Cardinality(DOMAIN lookup) >= 2
    /\ \E k \in Calls : log[k].digest \notin DOMAIN lookup

\* C15: between witness calls, the digests that have a map entry are exactly
\* the digests held by the slots written so far.
C15_IndexIsWindow ==
    mutex = Free => DOMAIN lookup = Held

\* The buffer has wrapped, a digest has been evicted, and a digest held by
\* two slots has kept its entry after the older of them was overwritten.
C15_Witness ==
    /\ mutex = Free
    /\ Inserted > size
    /\ \E k \in Calls : log[k].digest \notin DOMAIN lookup
    /\ \E k \in Calls :
          /\ k <= Len(log) - size
          /\ log[k].digest \in DOMAIN lookup

\* C16: while fewer than capacity insertions have been made, the pruning
\* guard of lines 49-50 is not satisfied when a call reaches it.
C16_NoPruneDuringFill ==
    \A p \in callers :
        (size >= 1 /\ pc[p] = "update" /\ Inserted < size) => ~PruneGuard(Self)

---------------------------------------------------------------------------
\* The step of lines 49-57 is being taken by some goroutine.
Inserting == \E p \in callers : pc[p] = "update" /\ pc'[p] = "unlock"

\* C17: every witness call moves the cursor from c to (c + 1) mod N, whether
\* it returns true or false; nothing else moves it, and 0 <= cursor < N.
C17_CursorAdvances ==
    /\ [](size >= 1 => index \in 0 .. (size - 1))
    /\ [][size >= 1 =>
            IF Inserting THEN index' = (index + 1) % size ELSE index' = index]_vars

\* A call that is about to return true has moved the cursor from the last
\* slot back to slot 0.
C17_Witness ==
    /\ size >= 2
    /\ index = 0
    /\ \E p \in callers : pc[p] = "unlock" /\ familiar[p]

\* How long ago slot i (0-based) was written: 0 for the newest slot.
Age(i) == (index - i + size - 1) % size

\* C18: between witness calls the map entry of a digest points at the most
\* recently written of the slots that hold it; an entry is removed only by
\* the overwrite of the only written slot that holds its digest, which is
\* then the cursor slot the entry points at.
C18_NewestOccurrence ==
    /\ [](mutex = Free =>
            \A j \in Written :
                /\ buffer[j] \in DOMAIN lookup
                /\ Age(lookup[buffer[j]]) <= Age(j - 1))
    /\ [][\A f \in (DOMAIN lookup) \ (DOMAIN lookup') :
            /\ Inserting
            /\ lookup[f] = index
            /\ \A j \in Written : buffer[j] = f <=> j = index + 1]_vars

\* A digest is held by two slots and its entry points at the lower-numbered
\* one, written after the buffer wrapped.
C18_Witness ==
    /\ mutex = Free
    /\ Inserted > size
    /\ \E i, j \in Written :
          /\ i < j
          /\ buffer[i] = buffer[j]
          /\ lookup[buffer[i]] = i - 1

\* C19: the map never has more entries than the capacity, nor more than the
\* number of calls made so far.
C19_IndexBounded ==
    /\ Cardinality(DOMAIN lookup) <= size
    /\ Cardinality(DOMAIN lookup) <= Len(log)

\* More calls than slots, a digest passed twice, and the map is full.
C19_Witness ==
    /\ size >= 2
    /\ Len(log) > size
    /\ \E i, j \in Calls : i # j /\ log[i].digest = log[j].digest
    /\ Cardinality(DOMAIN lookup) = size

\* C20: a witness call with digest f made when the cursor is c writes f to
\* slot c and changes no other slot, nor the capacity, nor the number of
\* slots; the map changes only in the entry of f and in the entry of the
\* digest slot c held before.  No other step changes any of them.
C20_Frame ==
    [][size >= 1 =>
        IF Inserting
        THEN \E p \in callers :
                /\ pc[p] = "update" /\ pc'[p] = "unlock"
                /\ size' = size
                /\ Len(buffer') = Len(buffer)
                /\ buffer'[index + 1] = digest[p]
                /\ \A i \in 1 .. Len(buffer) :
                      i # index + 1 => buffer'[i] = buffer[i]
                /\ \A g \in Digests \ {digest[p], buffer[index + 1]} :
                      /\ g \in DOMAIN lookup' <=> g \in DOMAIN lookup
                      /\ g \in DOMAIN lookup => lookup'[g] = lookup[g]
        ELSE /\ buffer' = buffer
             /\ lookup' = lookup
             /\ size' = size]_vars

\* A call has just overwritten a written slot: the digest that slot held has
\* lost its entry and another digest has kept its own.
C20_Witness ==
    /\ size >= 2
    /\ Len(log) > size
    /\ \E p \in callers :
          /\ pc[p] = "unlock"
          /\ log[Len(log) - size].digest \notin DOMAIN lookup
          /\ \E g \in DOMAIN lookup : g # digest[p]

====
